---- MODULE Spec2Model ----
(***************************************************************************)
(* A model of propertyestimator's calculation-layer result pipeline        *)
(* (layers/layers.py) and of the protocol node merge contract              *)
(* (workflow/protocols.py).                                                *)
(***************************************************************************)
EXTENDS Integers, Sequences, FiniteSets, TLC

(***************************************************************************)
(* Bounds of the model.                                                    *)
(***************************************************************************)
MaxResults == 2
MaxQueue == 2
MaxUnits == 2
MaxValue == 1
MaxRegistrations == 4
MaxPassResults == 1
MaxCalls == 3
Whole == 4

(***************************************************************************)
(* Small universes the inputs are drawn from.                              *)
(***************************************************************************)
\* Python's None.
NoVal == [type |-> "NoneType"]

PropertyIds == {"P1", "P2"}

Substances == {"S1", "S2"}

\* What os.path / json / the storage backend make of a data directory:
\*   nodir  - path.isdir(data_directory) is false
\*   nofile - the directory exists but holds no data.json
\*   ok     - both exist, the manifest loads and the backend stores it
\*   faulty - both exist, but the manifest does not load as a data object
\*            (json.load raises before the backend is called); a backend
\*            which raises leaves the request the same way
Directories == {"nodir", "nofile", "ok", "faulty"}

\* An object returned by a unit which is not a CalculationLayerResult.
NotAResult == [type |-> "object"]

\* The exception a unit recorded on the result of property pid.
ResultException(pid) == [type |-> "exception", kind |-> "result", of |-> pid]

\* The property object a unit built for property pid of substance s.
CalculatedProperty(pid, s) == [type |-> "property", id |-> pid, substance |-> s]

\* A Python list of data directories.
DirectoryList(items) == [type |-> "list", items |-> items]

DirectoryLists == {NoVal, DirectoryList(<< >>)} \cup {DirectoryList(<<d>>) : d \in Directories}

CalculationLayerResult(pid, prop, exc, dirs) ==
    [type |-> "CalculationLayerResult",
     property_id |-> pid,
     calculated_property |-> prop,
     exception |-> exc,
     data_directories_to_store |-> dirs]

\* Results which carry a property and no exception. The directory list
\* varies on the results of substance S1.
SuccessResults ==
    {CalculationLayerResult(pid, CalculatedProperty(pid, s), NoVal, DirectoryList(<< >>)) :
        pid \in PropertyIds, s \in Substances}
    \cup {CalculationLayerResult(pid, CalculatedProperty(pid, "S1"), NoVal, dirs) :
        pid \in PropertyIds, dirs \in DirectoryLists}

\* Results which carry an exception, with or without a property object.
FailedResults ==
    {CalculationLayerResult(pid, CalculatedProperty(pid, s), ResultException(pid),
                            DirectoryList(<<"ok">>)) :
        pid \in PropertyIds, s \in Substances}
    \cup {CalculationLayerResult(pid, NoVal, ResultException(pid), DirectoryList(<< >>)) :
        pid \in PropertyIds}

\* Results which report neither a property nor an exception.
EmptyResults ==
    {CalculationLayerResult(pid, NoVal, NoVal, DirectoryList(<< >>)) : pid \in PropertyIds}

ReturnedOutputs ==
    {NoVal, NotAResult} \cup SuccessResults \cup FailedResults \cup EmptyResults

\* The outputs the units of a submission return in the specification of
\* _await_results: one of each kind.
UnitOutputs ==
    {NoVal, NotAResult,
     CalculationLayerResult("P1", CalculatedProperty("P1", "S1"), NoVal, DirectoryList(<<"ok">>)),
     CalculationLayerResult("P2", CalculatedProperty("P2", "S2"), ResultException("P2"),
                            DirectoryList(<< >>)),
     CalculationLayerResult("P2", CalculatedProperty("P2", "S1"), NoVal,
                            DirectoryList(<<"faulty">>))}

SeqsUpTo(S, n) == UNION {[1..m -> S] : m \in 0..n}

\* A queued property: the object identity (key) and its id.
QueuedProperty(key, pid) == [key |-> key, id |-> pid]

\* The queues of a request: entry i is a distinct object, ids may repeat.
Queues ==
    {[i \in 1..Len(ids) |-> QueuedProperty(i, ids[i])] : ids \in SeqsUpTo(PropertyIds, MaxQueue)}

\* No call has been made on a protocol node.
NoCall == [op |-> "none"]

\* The values an attribute of a node may hold: an int, a bool, None (NoVal)
\* or a ProtocolPath.
Integer(n) == [type |-> "int", value |-> n]

Bool(b) == [type |-> "bool", value |-> b]

VARIABLES
    pc,                 \* position of the layer code
    synchronous,        \* the synchronous argument of _await_results
    submitted_futures,  \* state of every submitted unit's future
    callback_future,    \* state of the barrier future (return_args task)
    future_result,      \* the outputs the units return, in submission order
    awaited,            \* the future handed to callback_wrapper
    results,            \* list(results_future.result())
    k,                  \* index of the result the loop is at
    server_request,     \* the ServerEstimationRequest
    stored,             \* calls made to storage_backend.store_simulation_data
    callbacks,          \* the requests the callback was invoked with
    propagated,         \* an exception reached the caller
    returned,           \* the scheduling call returned to its caller
    outcomes,           \* how the loop body left each processed result
    before,             \* the request as the last loop pass found it
    request0,           \* the request as it was handed to the layer
    protocols,          \* the protocol nodes, by the name of the variable holding them
    last_call,          \* the last call made on a protocol node and what it gave
    available_layers,   \* the registry of calculation layers: class name -> class
    passes,             \* the aggregation passes running on threads of their own
    substance           \* a Substance: its _amounts and _components

vars == <<pc, synchronous, submitted_futures, callback_future, future_result, awaited, results, k,
          server_request, stored, callbacks, propagated, returned, outcomes, before,
          request0, protocols, last_call, available_layers, passes, substance>>

\* The variables of the protocol nodes and of the registry, which the layer
\* leaves alone.
protocol_vars == <<protocols, last_call, available_layers>>

\* The variables of the interleaved passes and of the Substance, which the
\* single pass and the protocols leave alone.
other_vars == <<passes, substance>>

\* The variables of the calculation layer, which the protocols leave alone.
layer_vars == <<pc, synchronous, submitted_futures, callback_future, future_result, awaited,
                results, k, server_request, stored, callbacks, propagated, returned,
                outcomes, before, request0>>

\* No pass runs on a thread of its own and no Substance has been built.
OthersIdle ==
    /\ passes = << >>
    /\ substance = NoVal

(***************************************************************************)
(* The request record and the helpers of the aggregation loop.             *)
(***************************************************************************)
\* An empty dictionary keyed by substance id.
EmptyDict == [s \in {} |-> << >>]

ServerEstimationRequest(queue) ==
    [queued_properties |-> queue,
     estimated_properties |-> EmptyDict,
     unsuccessful_properties |-> EmptyDict,
     exceptions |-> << >>]

\* isinstance(returned_output, CalculationLayerResult)
IsCalculationLayerResult(output) == output.type = "CalculationLayerResult"

\* The PropertyEstimatorException the top-level guard builds from a caught
\* exception; cause names the statement that raised.
UnhandledException(cause) == [type |-> "exception", kind |-> "unhandled", of |-> cause]

GuardCatches_ValueError(cause) == cause \in {"type", "conflict"}

\* except Exception: which raised exceptions the top-level guard catches.
GuardCatches(cause) == TRUE

\* list.remove(x): drops the first element equal to x.
RECURSIVE ListRemove(_, _)
ListRemove(list, x) ==
    IF list = << >> THEN << >>
    ELSE IF Head(list) = x THEN Tail(list)
    ELSE <<Head(list)>> \o ListRemove(Tail(list), x)

\* for match in matches: queued_properties.remove(match)
RECURSIVE RemoveMatches(_, _)
RemoveMatches(queue, matches) ==
    IF matches = << >> THEN queue
    ELSE RemoveMatches(ListRemove(queue, Head(matches)), Tail(matches))

Matches_WholeQueue(queue, property_id) == queue

\* [x for x in queued_properties if x.id == property_id]
Matches(queue, property_id) ==
    SelectSeq(queue, LAMBDA x : x.id = property_id)

IsInvalidDirectory_OnlyMissingDirectory(data_directory) == data_directory = "nodir"

\* if not path.isdir(data_directory) or not path.isfile(data_file)
IsInvalidDirectory(data_directory) == data_directory \in {"nodir", "nofile"}

\* The data directory loop: skips a directory or manifest that does not
\* exist, stores the others in order, and stops at the first one whose
\* manifest or store call raises.
RECURSIVE StoreDirectories(_, _, _)
StoreDirectories(dirs, substance_id, sto) ==
    IF dirs = << >> THEN [stored |-> sto, raised |-> FALSE]
    ELSE LET data_directory == Head(dirs) IN
         IF IsInvalidDirectory(data_directory)
         THEN StoreDirectories(Tail(dirs), substance_id, sto)
         ELSE IF data_directory = "faulty"
         THEN [stored |-> sto, raised |-> TRUE]
         ELSE StoreDirectories(Tail(dirs), substance_id,
                               Append(sto, <<substance_id, data_directory>>))

AppendUnder_Overwrite(dictionary, substance_id, property) ==
    IF substance_id \in DOMAIN dictionary
    THEN [dictionary EXCEPT ![substance_id] = <<property>>]
    ELSE dictionary @@ (substance_id :> <<property>>)

\* dictionary[substance_id].append(property), creating the list when the
\* key is missing.
AppendUnder(dictionary, substance_id, property) ==
    IF substance_id \in DOMAIN dictionary
    THEN [dictionary EXCEPT ![substance_id] = Append(@, property)]
    ELSE dictionary @@ (substance_id :> <<property>>)

\* The loop body ran to its end or to a continue.
NotRaised == "no"

\* What one pass of the loop body leaves behind.
BodyResult(req, sto, raised, outcome) ==
    [request |-> req, stored |-> sto, raised |-> raised, outcome |-> outcome]

IsConflict_MoreThanTwo(matches) == Len(matches) > 2

\* if len(matches) > 1: raise ValueError(... conflict occurred)
IsConflict(matches) == Len(matches) > 1

RoutesToEstimated_Always(returned_output) == TRUE

\* if returned_output.exception is None: estimated_properties, else
\* unsuccessful_properties.
RoutesToEstimated(returned_output) == returned_output.exception = NoVal

\* Matching and routing of one result (from "matches = ..." down).
MatchAndRoute(req, sto, returned_output) ==
    LET matches == Matches(req.queued_properties, returned_output.property_id)
        dequeued == [req EXCEPT !.queued_properties = RemoveMatches(@, matches)]
        property == returned_output.calculated_property
    IN  IF IsConflict(matches) THEN BodyResult(dequeued, sto, "conflict", "conflict")
        ELSE IF Len(matches) = 0 THEN BodyResult(dequeued, sto, NotRaised, "unmatched")
        ELSE IF property = NoVal /\ returned_output.exception = NoVal
        THEN BodyResult(dequeued, sto, NotRaised, "nothing")
        ELSE IF property = NoVal
        THEN BodyResult(dequeued, sto, NotRaised, "no_property")
        ELSE IF RoutesToEstimated(returned_output)
        THEN BodyResult([dequeued EXCEPT !.estimated_properties =
                            AppendUnder(@, property.substance, property)],
                        sto, NotRaised, "estimated")
        ELSE BodyResult([dequeued EXCEPT !.unsuccessful_properties =
                            AppendUnder(@, property.substance, property)],
                        sto, NotRaised, "unsuccessful")

LoopBody_NoneFailsTypeCheck(req, sto, returned_output) ==
    IF returned_output = NoVal \/ ~IsCalculationLayerResult(returned_output)
    THEN BodyResult(req, sto, "type", "type")
    ELSE IF returned_output.exception # NoVal
    THEN MatchAndRoute([req EXCEPT !.exceptions = Append(@, returned_output.exception)],
                       sto, returned_output)
    ELSE IF returned_output.data_directories_to_store # NoVal
            /\ returned_output.calculated_property # NoVal
    THEN LET kept == StoreDirectories(returned_output.data_directories_to_store.items,
                                      returned_output.calculated_property.substance, sto)
         IN  IF kept.raised THEN BodyResult(req, kept.stored, "storage", "storage")
             ELSE MatchAndRoute(req, kept.stored, returned_output)
    ELSE MatchAndRoute(req, sto, returned_output)

\* The body of "for returned_output in results".
LoopBody(req, sto, returned_output) ==
    IF returned_output = NoVal THEN BodyResult(req, sto, NotRaised, "none")
    ELSE IF ~IsCalculationLayerResult(returned_output)
    THEN BodyResult(req, sto, "type", "type")
    ELSE IF returned_output.exception # NoVal
    THEN MatchAndRoute([req EXCEPT !.exceptions = Append(@, returned_output.exception)],
                       sto, returned_output)
    ELSE IF returned_output.data_directories_to_store # NoVal
            /\ returned_output.calculated_property # NoVal
    THEN LET kept == StoreDirectories(returned_output.data_directories_to_store.items,
                                      returned_output.calculated_property.substance, sto)
         IN  IF kept.raised THEN BodyResult(req, kept.stored, "storage", "storage")
             ELSE MatchAndRoute(req, kept.stored, returned_output)
    ELSE MatchAndRoute(req, sto, returned_output)

Guarded_Reset(req, cause) ==
    [req EXCEPT !.exceptions = <<UnhandledException(cause)>>]

\* except Exception as e: ... server_request.exceptions.append(exception)
Guarded(req, cause) ==
    [req EXCEPT !.exceptions = Append(@, UnhandledException(cause))]

(***************************************************************************)
(* The futures of the backend.                                             *)
(***************************************************************************)
\* The barrier future: the return_args task over all submitted futures.
CallbackFuture == [task |-> "return_args"]

\* The future of the u-th submitted unit.
UnitFuture(u) == [task |-> "unit", index |-> u]

\* No future yet.
NoFuture == [task |-> "none"]

AwaitedFuture_FirstSubmitted(futures) ==
    IF futures = << >> THEN CallbackFuture ELSE UnitFuture(1)

\* The future _await_results hands to callback_wrapper: callback_future,
\* the return_args task submitted over all of submitted_futures.
AwaitedFuture(futures) == CallbackFuture

\* The done callback fires / result() stops blocking for this future.
FutureDone(future) ==
    IF future = CallbackFuture
    THEN callback_future \in {"finished", "error"}
    ELSE future.task = "unit" /\ submitted_futures[future.index] = "finished"

\* results_future.result() raises.
FutureRaises(future) ==
    future = CallbackFuture /\ callback_future = "error"

\* What results_future.result() holds once the future is done.
FutureValue(future) ==
    IF future = CallbackFuture THEN future_result ELSE <<future_result[future.index]>>

ReturnsBeforeAggregation_Always(sync) == TRUE

\* if synchronous: callback_wrapper(callback_future) is run before the
\* call returns; else the wrapper is registered and the call returns.
ReturnsBeforeAggregation(sync) == ~sync

(***************************************************************************)
(* _process_results                                                        *)
(***************************************************************************)
\* results = list(results_future.result()); results_future.release()
FetchResults ==
    /\ pc = "waiting"
    /\ FutureDone(awaited)
    /\ IF FutureRaises(awaited)
       THEN /\ IF GuardCatches("future")
               THEN /\ server_request' = Guarded(server_request, "future")
                    /\ pc' = "callback"
                    /\ UNCHANGED propagated
               ELSE /\ propagated' = TRUE
                    /\ pc' = "raised"
                    /\ UNCHANGED server_request
            /\ UNCHANGED <<results, k>>
       ELSE /\ results' = FutureValue(awaited)
            /\ k' = 1
            /\ pc' = IF FutureValue(awaited) = << >> THEN "callback" ELSE "loop"
            /\ UNCHANGED <<server_request, propagated>>
    /\ UNCHANGED <<synchronous, submitted_futures, callback_future, future_result, awaited,
                   stored, callbacks, returned, outcomes, before, request0, protocol_vars, other_vars>>

\* One pass of "for returned_output in results", with the top-level
\* guard when the body raises.
ProcessResult ==
    /\ pc = "loop"
    /\ k <= Len(results)
    /\ LET body == LoopBody(server_request, stored, results[k])
       IN  /\ stored' = body.stored
           /\ before' = server_request
           /\ outcomes' = Append(outcomes, body.outcome)
           /\ IF body.raised = NotRaised
              THEN /\ server_request' = body.request
                   /\ k' = k + 1
                   /\ pc' = IF k = Len(results) THEN "callback" ELSE "loop"
                   /\ UNCHANGED propagated
              ELSE IF GuardCatches(body.raised)
              THEN /\ server_request' = Guarded(body.request, body.raised)
                   /\ pc' = "callback"
                   /\ UNCHANGED <<k, propagated>>
              ELSE /\ server_request' = body.request
                   /\ propagated' = TRUE
                   /\ pc' = "raised"
                   /\ UNCHANGED k
    /\ UNCHANGED <<synchronous, submitted_futures, callback_future, future_result, awaited,
                   results, callbacks, returned, request0, protocol_vars, other_vars>>

\* callback(server_request)
InvokeCallback ==
    /\ pc = "callback"
    /\ callbacks' = Append(callbacks, server_request)
    /\ pc' = "done"
    /\ returned' = TRUE
    /\ UNCHANGED <<synchronous, submitted_futures, callback_future, future_result, awaited,
                   results, k, server_request, stored, propagated, outcomes, before,
                   request0, protocol_vars, other_vars>>

(***************************************************************************)
(* Spec: one aggregation pass. The backend invokes the continuation with   *)
(* a barrier future that finished with any list of outputs, or failed.     *)
(***************************************************************************)
Init ==
    /\ pc = "waiting"
    /\ synchronous = FALSE
    /\ \/ /\ callback_future = "finished"
          /\ future_result \in SeqsUpTo(ReturnedOutputs, MaxResults)
       \/ /\ callback_future = "error"
          /\ future_result = << >>
    /\ submitted_futures = [u \in 1..Len(future_result) |-> "finished"]
    /\ awaited = CallbackFuture
    /\ results = << >>
    /\ k = 0
    /\ \E queue \in Queues :
          /\ server_request = ServerEstimationRequest(queue)
          /\ request0 = ServerEstimationRequest(queue)
          /\ before = ServerEstimationRequest(queue)
    /\ stored = << >>
    /\ callbacks = << >>
    /\ propagated = FALSE
    /\ returned = TRUE
    /\ outcomes = << >>
    /\ protocols = << >>
    /\ last_call = NoCall
    /\ available_layers = EmptyDict
    /\ OthersIdle

Next == FetchResults \/ ProcessResult \/ InvokeCallback

Spec == Init /\ [][Next]_vars

(***************************************************************************)
(* _await_results and the backend.                                         *)
(***************************************************************************)
SubmitRaisesTo_Guard(sync) == "guard"

\* Where an exception raised by calculation_backend.submit_task goes: the
\* call is made outside any try block.
SubmitRaisesTo(sync) == "caller"

\* callback_future = submit_task(return_args, *submitted_futures), then
\* callback_wrapper is run (synchronous) or registered as done callback.
AwaitResults ==
    /\ pc = "start"
    /\ \/ /\ callback_future' = "pending"
          /\ awaited' = AwaitedFuture(submitted_futures)
          /\ pc' = "waiting"
          /\ returned' = ReturnsBeforeAggregation(synchronous)
          /\ UNCHANGED <<propagated, server_request>>
       \/ /\ callback_future' = "rejected"
          /\ UNCHANGED awaited
          /\ IF SubmitRaisesTo(synchronous) = "caller"
             THEN /\ propagated' = TRUE
                  /\ pc' = "raised"
                  /\ returned' = TRUE
                  /\ UNCHANGED server_request
             ELSE /\ server_request' = Guarded(server_request, "submit")
                  /\ pc' = "callback"
                  /\ UNCHANGED <<propagated, returned>>
    /\ UNCHANGED <<synchronous, submitted_futures, future_result, results, k, stored,
                   callbacks, outcomes, before, request0, protocol_vars, other_vars>>

\* The backend finishes one submitted unit.
ResolveUnit(u) ==
    /\ submitted_futures[u] = "pending"
    /\ submitted_futures' = [submitted_futures EXCEPT ![u] = "finished"]
    /\ UNCHANGED <<pc, synchronous, callback_future, future_result, awaited, results, k,
                   server_request, stored, callbacks, propagated, returned, outcomes,
                   before, request0, protocol_vars, other_vars>>

\* The backend runs the return_args task once every future it depends on
\* has finished; fetching its result may still fail.
ResolveBarrier ==
    /\ callback_future = "pending"
    /\ \A u \in DOMAIN submitted_futures : submitted_futures[u] = "finished"
    /\ callback_future' \in {"finished", "error"}
    /\ UNCHANGED <<pc, synchronous, submitted_futures, future_result, awaited, results, k,
                   server_request, stored, callbacks, propagated, returned, outcomes,
                   before, request0, protocol_vars, other_vars>>

(***************************************************************************)
(* SpecAwait: one call of _await_results over a submission of units which  *)
(* the backend finishes in any order.                                      *)
(***************************************************************************)
InitAwait ==
    /\ pc = "start"
    /\ synchronous \in BOOLEAN
    /\ future_result \in SeqsUpTo(UnitOutputs, MaxUnits)
    /\ submitted_futures = [u \in 1..Len(future_result) |-> "pending"]
    /\ callback_future = "none"
    /\ awaited = NoFuture
    /\ results = << >>
    /\ k = 0
    /\ \E queue \in Queues :
          /\ server_request = ServerEstimationRequest(queue)
          /\ request0 = ServerEstimationRequest(queue)
          /\ before = ServerEstimationRequest(queue)
    /\ stored = << >>
    /\ callbacks = << >>
    /\ propagated = FALSE
    /\ returned = FALSE
    /\ outcomes = << >>
    /\ protocols = << >>
    /\ last_call = NoCall
    /\ available_layers = EmptyDict
    /\ OthersIdle

NextAwait ==
    \/ AwaitResults
    \/ \E u \in DOMAIN submitted_futures : ResolveUnit(u)
    \/ ResolveBarrier
    \/ FetchResults
    \/ ProcessResult
    \/ InvokeCallback

SpecAwait == InitAwait /\ [][NextAwait]_vars

(***************************************************************************)
(* Protocol nodes (workflow/protocols.py).                                 *)
(***************************************************************************)
\* A type with an input, unmanaged_input, whose merge policy is the fourth
\* member of MergeBehaviour, Unmanaged.
UnmanagedTypes == {"UnmanagedInputProtocol"}

\* The declared types of the model. BaseProtocol is a class like the others:
\* its constructor and execute are concrete, and its only input is
\* allow_merging. ProtocolGroup stands for the container classes, whose
\* required inputs also address their children.
ProtocolTypes ==
    {"BaseProtocol", "AveragePropertyProtocol", "ExtractAverageStatistic",
     "RunOpenMMSimulation", "ProtocolGroup"} \cup UnmanagedTypes

\* type and its base classes, as isinstance sees them.
BaseClasses(type) ==
    IF type = "ExtractAverageStatistic"
    THEN {"ExtractAverageStatistic", "AveragePropertyProtocol", "BaseProtocol"}
    ELSE {type, "BaseProtocol"}

\* The attributes of each type decorated as protocol inputs, in the order
\* find_types_with_decorator lists them: the class first, then its bases.
DeclaredInputs(type) ==
    CASE type = "BaseProtocol" -> <<"allow_merging">>
      [] type = "AveragePropertyProtocol" -> <<"bootstrap_iterations", "allow_merging">>
      [] type = "ExtractAverageStatistic" ->
            <<"statistics_path", "bootstrap_iterations", "allow_merging">>
      [] type = "RunOpenMMSimulation" -> <<"steps", "timestep", "ensemble", "allow_merging">>
      [] type = "UnmanagedInputProtocol" -> <<"unmanaged_input", "allow_merging">>
      [] OTHER -> <<"conditions", "allow_merging">>

\* The attributes of each type decorated as protocol outputs.
DeclaredOutputs(type) ==
    CASE type \in {"AveragePropertyProtocol", "ExtractAverageStatistic"} -> <<"value">>
      [] type = "RunOpenMMSimulation" -> <<"output_coordinate_file">>
      [] OTHER -> << >>

MergeBehaviorOf_AllowMergingUntagged(type, property_name) ==
    CASE property_name \in {"bootstrap_iterations", "steps"} -> "GreatestValue"
      [] property_name = "timestep" -> "SmallestValue"
      [] property_name = "unmanaged_input" -> "Unmanaged"
      [] property_name \in {"conditions", "allow_merging"} -> "none"
      [] OTHER -> "ExactlyEqual"

\* The merge_behavior of an input attribute; "none" when the attribute
\* carries no such flag.
MergeBehaviorOf(type, property_name) ==
    CASE property_name \in {"bootstrap_iterations", "steps"} -> "GreatestValue"
      [] property_name = "timestep" -> "SmallestValue"
      [] property_name = "unmanaged_input" -> "Unmanaged"
      [] property_name = "conditions" -> "none"
      [] OTHER -> "ExactlyEqual"

\* ProtocolPath(property_name, *protocol_ids)
ProtocolPath(property_name, protocol_ids) ==
    [type |-> "ProtocolPath", property_name |-> property_name, protocol_ids |-> protocol_ids]

\* path.start_protocol is not None
HasStartProtocol(path) == path.protocol_ids # << >>

\* path.start_protocol, of a path which has one
StartProtocol(path) == path.protocol_ids[1]

\* path.last_protocol, of a path which has one
LastProtocol(path) == path.protocol_ids[Len(path.protocol_ids)]

\* The id of the child a ProtocolGroup addresses.
ChildId == "child"

\* The required_inputs of a fresh node: one path per declared input, with
\* no protocol id or (bound) with the node's own, and for a group the path
\* to an input of its child.
RequiredInputs(type, id, bound) ==
    [i \in DOMAIN DeclaredInputs(type) |->
        ProtocolPath(DeclaredInputs(type)[i], IF bound THEN <<id>> ELSE << >>)]
    \o (IF type = "ProtocolGroup" THEN <<ProtocolPath("steps", <<id, ChildId>>)>> ELSE << >>)

\* The provided_outputs of a fresh node: one path per declared output.
ProvidedOutputs(type, id, bound) ==
    [i \in DOMAIN DeclaredOutputs(type) |->
        ProtocolPath(DeclaredOutputs(type)[i], IF bound THEN <<id>> ELSE << >>)]

InputNames(type) == {DeclaredInputs(type)[i] : i \in DOMAIN DeclaredInputs(type)}

OutputNames(type) == {DeclaredOutputs(type)[i] : i \in DOMAIN DeclaredOutputs(type)}

\* The attributes of a node object which are neither inputs nor outputs;
\* directory stands for them (id, schema, dependencies, required_inputs and
\* provided_outputs are further ones).
OtherAttributes == {"directory"}

\* The literal values an input may hold: a bool for allow_merging, a count
\* for the int and Quantity inputs, and one of two values (such as
\* Ensemble.NVT and Ensemble.NPT) for the others.
InputValues(property_name) ==
    IF property_name = "allow_merging" THEN {Bool(FALSE), Bool(TRUE)}
    ELSE IF property_name \in {"steps", "timestep", "bootstrap_iterations"}
    THEN {Integer(n) : n \in 0..MaxValue}
    ELSE {Integer(0), Integer(1)}

\* The assignments of literal values to the inputs of a type.
InputAssignments(type) ==
    {f \in [InputNames(type) -> UNION {InputValues(n) : n \in InputNames(type)}] :
        \A n \in DOMAIN f : f[n] \in InputValues(n)}

\* The attributes __init__ leaves at None: the outputs and the directory.
Unset(type) == [n \in OutputNames(type) \cup OtherAttributes |-> NoVal]

\* A node: values holds its attributes by name, as getattr and setattr see them.
Protocol(type, id, bound, inputs) ==
    [type |-> type, id |-> id,
     required_inputs |-> RequiredInputs(type, id, bound),
     provided_outputs |-> ProvidedOutputs(type, id, bound),
     values |-> inputs @@ Unset(type)]

\* The nodes of one id.
ProtocolsWithId(id) ==
    UNION {
        {Protocol(type, id, bound, inputs) :
            bound \in BOOLEAN, inputs \in InputAssignments(type)} :
        type \in ProtocolTypes}

\* bool(value)
Truthy(value) ==
    CASE value.type = "bool" -> value.value
      [] value.type = "int" -> value.value # 0
      [] value.type = "NoneType" -> FALSE
      [] OTHER -> TRUE

\* What a call on a node gives: a value, or the exception it raises.
Returns(value) == [raised |-> "no", value |-> value]

Raises(exception) == [raised |-> exception, value |-> NoVal]

\* BaseProtocol.get_value
GetValue(protocol, reference_path) ==
    IF HasStartProtocol(reference_path) /\ StartProtocol(reference_path) # protocol.id
    THEN Raises("ValueError")
    ELSE IF reference_path.property_name \notin DOMAIN protocol.values
    THEN Raises("ValueError")
    ELSE Returns(protocol.values[reference_path.property_name])

\* path in list
InList(path, list) == \E j \in DOMAIN list : list[j] = path

ComparedByCanMerge_Inverted(merge_behavior) == merge_behavior # "ExactlyEqual"

\* if merge_behavior != MergeBehaviour.ExactlyEqual: continue
ComparedByCanMerge(merge_behavior) == merge_behavior = "ExactlyEqual"

\* The loop of can_merge over self.required_inputs, from index i on.
RECURSIVE CanMergeFrom(_, _, _)
CanMergeFrom(self, other, i) ==
    IF i > Len(self.required_inputs) THEN "True"
    ELSE LET input_path == self.required_inputs[i] IN
         IF HasStartProtocol(input_path) /\ StartProtocol(input_path) # self.id
         THEN CanMergeFrom(self, other, i + 1)
         ELSE IF ~(\/ ~HasStartProtocol(input_path)
                   \/ /\ StartProtocol(input_path) = LastProtocol(input_path)
                      /\ StartProtocol(input_path) = self.id)
         THEN CanMergeFrom(self, other, i + 1)
         ELSE IF MergeBehaviorOf(self.type, input_path.property_name) = "none"
         THEN CanMergeFrom(self, other, i + 1)
         ELSE IF ~ComparedByCanMerge(MergeBehaviorOf(self.type, input_path.property_name))
         THEN CanMergeFrom(self, other, i + 1)
         ELSE IF ~InList(input_path, other.required_inputs) THEN "False"
         ELSE LET self_value == GetValue(self, input_path)
                  other_value == GetValue(other, input_path)
              IN  IF self_value.raised # "no" THEN self_value.raised
                  ELSE IF other_value.raised # "no" THEN other_value.raised
                  ELSE IF self_value.value # other_value.value THEN "False"
                  ELSE CanMergeFrom(self, other, i + 1)

IsInstance_Always(self, other) == TRUE

\* isinstance(self, type(other))
IsInstance(self, other) == other.type \in BaseClasses(self.type)

\* BaseProtocol.can_merge
CanMerge(self, other) ==
    IF ~Truthy(self.values["allow_merging"]) THEN "False"
    ELSE IF ~IsInstance(self, other) THEN "False"
    ELSE CanMergeFrom(self, other, 1)

\* x.can_merge(y) on two of the nodes.
CanMergeCall(x, y) ==
    /\ last_call' = [op |-> "can_merge", self |-> x, other |-> y,
                     answer |-> CanMerge(protocols[x], protocols[y])]
    /\ UNCHANGED <<protocols, available_layers, layer_vars, other_vars>>

\* BaseProtocol.set_value: the node after the call, or the exception raised.
SetValue(protocol, reference_path, value) ==
    IF HasStartProtocol(reference_path) /\ StartProtocol(reference_path) # protocol.id
    THEN [protocol |-> protocol, raised |-> "ValueError"]
    ELSE IF reference_path.property_name \notin DOMAIN protocol.values
    THEN [protocol |-> protocol, raised |-> "ValueError"]
    ELSE IF InList(reference_path, protocol.provided_outputs)
    THEN [protocol |-> protocol, raised |-> "ValueError"]
    ELSE [protocol |-> [protocol EXCEPT !.values[reference_path.property_name] = value],
          raised |-> "no"]

\* min(a, b)
Smallest(a, b) ==
    IF a.type = "int" /\ b.type = "int"
    THEN Returns(IF b.value < a.value THEN b ELSE a)
    ELSE Raises("TypeError")

\* max(a, b)
Greatest(a, b) ==
    IF a.type = "int" /\ b.type = "int"
    THEN Returns(IF b.value > a.value THEN b ELSE a)
    ELSE Raises("TypeError")

MergedValue_KeepsOwn(merge_behavior, self_value, other_value) == Returns(self_value)

\* The value merge computes for an input whose merge_behavior is not
\* ExactlyEqual: value = None, replaced by min or max for the two
\* behaviours the code names.
MergedValue(merge_behavior, self_value, other_value) ==
    IF merge_behavior = "SmallestValue" THEN Smallest(self_value, other_value)
    ELSE IF merge_behavior = "GreatestValue" THEN Greatest(self_value, other_value)
    ELSE Returns(NoVal)

\* The loop of merge over self.required_inputs, from index i on: the node
\* it leaves, and the exception which ended it, if any.
RECURSIVE MergeFrom(_, _, _)
MergeFrom(self, other, i) ==
    IF i > Len(self.required_inputs) THEN [protocol |-> self, raised |-> "no"]
    ELSE LET input_path == self.required_inputs[i]
             merge_behavior == MergeBehaviorOf(self.type, input_path.property_name)
         IN
         IF ~(\/ ~HasStartProtocol(input_path)
              \/ /\ StartProtocol(input_path) = LastProtocol(input_path)
                 /\ StartProtocol(input_path) = self.id)
         THEN MergeFrom(self, other, i + 1)
         ELSE IF merge_behavior = "none"
         THEN MergeFrom(self, other, i + 1)
         ELSE IF merge_behavior = "ExactlyEqual"
         THEN MergeFrom(self, other, i + 1)
         ELSE LET reads == merge_behavior \in {"SmallestValue", "GreatestValue"}
                  self_value == GetValue(self, input_path)
                  other_value == GetValue(other, input_path)
              IN  IF reads /\ self_value.raised # "no"
                  THEN [protocol |-> self, raised |-> self_value.raised]
                  ELSE IF reads /\ other_value.raised # "no"
                  THEN [protocol |-> self, raised |-> other_value.raised]
                  ELSE LET value == MergedValue(merge_behavior, self_value.value,
                                                other_value.value)
                           set == SetValue(self, input_path, value.value)
                       IN  IF value.raised # "no"
                           THEN [protocol |-> self, raised |-> value.raised]
                           ELSE IF set.raised # "no" THEN set
                           ELSE MergeFrom(set.protocol, other, i + 1)

\* BaseProtocol.merge
Merge(self, other) == MergeFrom(self, other, 1)

\* x.merge(y) on two of the nodes; was keeps the nodes as the call found them.
MergeCall(x, y) ==
    /\ last_call' = [op |-> "merge", self |-> x, other |-> y,
                     answer |-> Merge(protocols[x], protocols[y]).raised,
                     was |-> protocols]
    /\ protocols' = [protocols EXCEPT ![x] = Merge(protocols[x], protocols[y]).protocol]
    /\ UNCHANGED <<available_layers, layer_vars, other_vars>>

(***************************************************************************)
(* SpecMerge: two protocol nodes, a and b, and the calls made on them.     *)
(***************************************************************************)
\* No calculation layer is at work.
LayerIdle ==
    /\ pc = "idle"
    /\ synchronous = FALSE
    /\ submitted_futures = << >>
    /\ callback_future = "none"
    /\ future_result = << >>
    /\ awaited = NoFuture
    /\ results = << >>
    /\ k = 0
    /\ server_request = ServerEstimationRequest(<< >>)
    /\ request0 = ServerEstimationRequest(<< >>)
    /\ before = ServerEstimationRequest(<< >>)
    /\ stored = << >>
    /\ callbacks = << >>
    /\ propagated = FALSE
    /\ returned = FALSE
    /\ outcomes = << >>

InitMerge ==
    /\ protocols \in [a : ProtocolsWithId("protocol_a"),
                      b : ProtocolsWithId("protocol_a") \cup ProtocolsWithId("protocol_b")]
    /\ last_call = NoCall
    /\ available_layers = EmptyDict
    /\ LayerIdle
    /\ OthersIdle

NextMerge ==
    \E x \in {"a", "b"}, y \in {"a", "b"} :
        \/ CanMergeCall(x, y)
        \/ MergeCall(x, y)

SpecMerge == InitMerge /\ [][NextMerge]_vars

(***************************************************************************)
(* SpecValue: one node as its constructor leaves it, and the get_value and *)
(* set_value calls made on it.                                             *)
(***************************************************************************)
\* The values the constructor gives the inputs of a type.
DefaultInputs(type) ==
    [n \in InputNames(type) |-> IF n = "allow_merging" THEN Bool(TRUE) ELSE Integer(0)]

\* The nodes of one id as their constructors leave them, with the addresses
\* local or bound to the node's own id.
FreshProtocols(id) ==
    {Protocol(type, id, bound, DefaultInputs(type)) : type \in ProtocolTypes, bound \in BOOLEAN}

\* The property names calls address: the attributes some type declares, the
\* directory, and a name no node has.
PropertyNames ==
    UNION {InputNames(type) \cup OutputNames(type) : type \in ProtocolTypes}
        \cup OtherAttributes \cup {"no_such_property"}

\* The addresses calls are made with: local, bound to the node, or bound to
\* another node.
ReferencePaths ==
    {ProtocolPath(n, ids) : n \in PropertyNames,
                            ids \in {<< >>, <<"protocol_a">>, <<"protocol_b">>}}

\* The values set_value is called with.
SetValues == {Integer(n) : n \in 1..MaxValue}

\* x.get_value(reference_path)
GetValueCall(x, reference_path) ==
    /\ last_call' = [op |-> "get_value", self |-> x, path |-> reference_path,
                     answer |-> GetValue(protocols[x], reference_path).raised,
                     value |-> GetValue(protocols[x], reference_path).value,
                     was |-> protocols]
    /\ UNCHANGED <<protocols, available_layers, layer_vars, other_vars>>

\* x.set_value(reference_path, value)
SetValueCall(x, reference_path, value) ==
    /\ last_call' = [op |-> "set_value", self |-> x, path |-> reference_path,
                     answer |-> SetValue(protocols[x], reference_path, value).raised,
                     value |-> value,
                     was |-> protocols]
    /\ protocols' = [protocols EXCEPT
                        ![x] = SetValue(protocols[x], reference_path, value).protocol]
    /\ UNCHANGED <<available_layers, layer_vars, other_vars>>

InitValue ==
    /\ protocols \in [a : FreshProtocols("protocol_a")]
    /\ last_call = NoCall
    /\ available_layers = EmptyDict
    /\ LayerIdle
    /\ OthersIdle

NextValue ==
    \E reference_path \in ReferencePaths :
        \/ GetValueCall("a", reference_path)
        \/ \E value \in SetValues : SetValueCall("a", reference_path, value)

SpecValue == InitValue /\ [][NextValue]_vars

(***************************************************************************)
(* Schemas (BaseProtocol._get_schema, _set_schema) and SpecSchema: a node  *)
(* a, a fresh node b, and the imports of one's schema into the other.      *)
(***************************************************************************)
\* A unit.Quantity: a value in a unit of time.
Quantity(value, unit) == [type |-> "Quantity", value |-> value, unit |-> unit]

\* The units a timestep is given in; the first is the base unit.
Units == <<"femtoseconds", "picoseconds">>

\* quantity.unit.get_conversion_factor_to_base_units()
ConversionFactor(unit) == IF unit = Units[1] THEN 1 ELSE 1000

\* serialize_quantity: the unitless value in base units, and the base unit.
SerializeQuantity(quantity) ==
    [type |-> "dict",
     unitless_value |-> quantity.value * ConversionFactor(quantity.unit),
     unit |-> Units[1]]

\* deserialize_quantity
DeserializeQuantity(serialized) == Quantity(serialized.unitless_value, serialized.unit)

\* input_path.full_path: the node ids, then the property name.
FullPath(path) == path.protocol_ids \o <<path.property_name>>

\* ProtocolPath.from_string
FromString(full_path) ==
    ProtocolPath(full_path[Len(full_path)], SubSeq(full_path, 1, Len(full_path) - 1))

\* The entries _get_schema writes into schema.inputs for the required
\* inputs from index i on, in the order it writes them.
RECURSIVE SchemaInputsFrom(_, _)
SchemaInputsFrom(self, i) ==
    IF i > Len(self.required_inputs) THEN << >>
    ELSE LET input_path == self.required_inputs[i]
             value == GetValue(self, input_path).value
         IN
         IF ~(\/ ~HasStartProtocol(input_path)
              \/ /\ StartProtocol(input_path) = self.id
                 /\ StartProtocol(input_path) = LastProtocol(input_path))
         THEN SchemaInputsFrom(self, i + 1)
         ELSE <<[path |-> FullPath(input_path),
                 value |-> IF value.type = "Quantity" THEN SerializeQuantity(value)
                           ELSE value]>>
              \o SchemaInputsFrom(self, i + 1)

\* BaseProtocol._get_schema
GetSchema(self) ==
    [id |-> self.id, type |-> self.type, inputs |-> SchemaInputsFrom(self, 1)]

\* The loop of _set_schema over schema_value.inputs, from index i on.
RECURSIVE SetInputsFrom(_, _, _)
SetInputsFrom(self, schema_value, i) ==
    IF i > Len(schema_value.inputs) THEN [protocol |-> self, raised |-> "no"]
    ELSE LET entry == schema_value.inputs[i]
             value == IF entry.value.type = "dict" THEN DeserializeQuantity(entry.value)
                      ELSE entry.value
             set == SetValue(self, FromString(entry.path), value)
         IN  IF set.raised # "no" THEN set
             ELSE SetInputsFrom(set.protocol, schema_value, i + 1)

TypeMatches_Always(self, schema_value) == TRUE

\* type(self).__name__ == schema_value.type
TypeMatches(self, schema_value) == self.type = schema_value.type

\* BaseProtocol._set_schema
SetSchema(self, schema_value) ==
    LET renamed == [self EXCEPT !.id = schema_value.id] IN
    IF ~TypeMatches(self, schema_value)
    THEN [protocol |-> renamed, raised |-> "ValueError"]
    ELSE SetInputsFrom(renamed, schema_value, 1)

\* x.schema = y.schema
SchemaCall(x, y) ==
    /\ last_call' = [op |-> "set_schema", self |-> x, other |-> y,
                     schema |-> GetSchema(protocols[y]),
                     answer |-> SetSchema(protocols[x], GetSchema(protocols[y])).raised,
                     was |-> protocols]
    /\ protocols' = [protocols EXCEPT
                        ![x] = SetSchema(protocols[x], GetSchema(protocols[y])).protocol]
    /\ UNCHANGED <<available_layers, layer_vars, other_vars>>

\* protocol with its timestep, if it has one, as a quantity in a unit.
WithQuantity(protocol, unit) ==
    IF "timestep" \in DOMAIN protocol.values
    THEN [protocol EXCEPT !.values["timestep"] = Quantity(@.value, unit)]
    ELSE protocol

\* The nodes whose schema is taken.
SchemaProtocols ==
    {WithQuantity(protocol, Units[u]) :
        protocol \in ProtocolsWithId("protocol_a"), u \in DOMAIN Units}

InitSchema ==
    /\ protocols \in [a : SchemaProtocols,
                      b : {protocol \in FreshProtocols("protocol_b") :
                              protocol.required_inputs
                                = RequiredInputs(protocol.type, protocol.id, FALSE)}]
    /\ last_call = NoCall
    /\ available_layers = EmptyDict
    /\ LayerIdle
    /\ OthersIdle

NextSchema == \E x \in {"a", "b"}, y \in {"a", "b"} : SchemaCall(x, y)

SpecSchema == InitSchema /\ [][NextSchema]_vars

(***************************************************************************)
(* The registry of calculation layers (layers.py, available_layers and     *)
(* register_calculation_layer) and SpecRegistry: the classes decorated,    *)
(* one after the other.                                                    *)
(***************************************************************************)
\* The classes which may be decorated: two of them may have the same
\* __name__ (the same name defined in two modules).
LayerClasses ==
    {[name |-> name, module |-> module] :
        name \in {"SimulationLayer", "ReweightingLayer"},
        module \in {"layers", "plugin"}}

\* No class has been decorated.
NoRegistration == [op |-> "none", history |-> << >>]

IsRegistered_Never(name, registry) == FALSE

\* cls.__name__ in available_layers
IsRegistered(name, registry) == name \in DOMAIN registry

\* available_layers[cls.__name__] = cls
Assign(registry, name, cls) ==
    [n \in DOMAIN registry \cup {name} |-> IF n = name THEN cls ELSE registry[n]]

\* register_calculation_layer()(cls); history keeps the classes decorated so far.
Register(cls) ==
    /\ Len(last_call.history) < MaxRegistrations
    /\ IF IsRegistered(cls.name, available_layers)
       THEN /\ last_call' = [op |-> "register", class |-> cls, answer |-> "ValueError",
                             was |-> available_layers,
                             history |-> Append(last_call.history, cls)]
            /\ UNCHANGED available_layers
       ELSE /\ last_call' = [op |-> "register", class |-> cls, answer |-> "no",
                             was |-> available_layers,
                             history |-> Append(last_call.history, cls)]
            /\ available_layers' = Assign(available_layers, cls.name, cls)
    /\ UNCHANGED <<protocols, layer_vars, other_vars>>

InitRegistry ==
    /\ available_layers = EmptyDict
    /\ last_call = NoRegistration
    /\ protocols = << >>
    /\ LayerIdle
    /\ OthersIdle

NextRegistry == \E cls \in LayerClasses : Register(cls)

SpecRegistry == InitRegistry /\ [][NextRegistry]_vars

(***************************************************************************)
(* BaseProtocol.replace_protocol and SpecReplace: one node, some of whose  *)
(* inputs take their value from another node, and the replace_protocol     *)
(* calls made on it.                                                       *)
(***************************************************************************)
\* ProtocolPath.replace_protocol: every old_id among the node ids of the
\* path becomes new_id.
PathReplace(path, old_id, new_id) ==
    [path EXCEPT !.protocol_ids =
        [i \in DOMAIN path.protocol_ids |->
            IF path.protocol_ids[i] = old_id THEN new_id ELSE path.protocol_ids[i]]]

\* The condition under which replace_protocol leaves the value of an input
\* alone: input_path.start_protocol is not None or (input_path.start_protocol
\* != input_path.last_protocol and input_path.start_protocol != self.id).
\* Without a start protocol both are None, and the second disjunct is false.
SkipsValue(self, input_path) ==
    \/ HasStartProtocol(input_path)
    \/ /\ HasStartProtocol(input_path)
       /\ StartProtocol(input_path) # LastProtocol(input_path)
       /\ StartProtocol(input_path) # self.id

\* The first loop of replace_protocol, over self.required_inputs from index
\* i on: the node it leaves, and the exception which ended it, if any.
RECURSIVE ReplaceInputsFrom(_, _, _, _)
ReplaceInputsFrom(self, old_id, new_id, i) ==
    IF i > Len(self.required_inputs) THEN [protocol |-> self, raised |-> "no"]
    ELSE LET input_path == PathReplace(self.required_inputs[i], old_id, new_id)
             redirected == [self EXCEPT !.required_inputs[i] = input_path]
             input_value == GetValue(redirected, input_path)
         IN
         IF SkipsValue(redirected, input_path)
         THEN ReplaceInputsFrom(redirected, old_id, new_id, i + 1)
         ELSE IF input_value.raised # "no"
         THEN [protocol |-> redirected, raised |-> input_value.raised]
         ELSE IF input_value.value.type # "ProtocolPath"
         THEN ReplaceInputsFrom(redirected, old_id, new_id, i + 1)
         ELSE ReplaceInputsFrom(
                  [redirected EXCEPT !.values[input_path.property_name] =
                      PathReplace(input_value.value, old_id, new_id)],
                  old_id, new_id, i + 1)

\* BaseProtocol.replace_protocol: the inputs, then the outputs.
ReplaceProtocol(self, old_id, new_id) ==
    LET inputs == ReplaceInputsFrom(self, old_id, new_id, 1) IN
    IF inputs.raised # "no" THEN inputs
    ELSE [protocol |->
             [inputs.protocol EXCEPT !.provided_outputs =
                 [i \in DOMAIN inputs.protocol.provided_outputs |->
                     PathReplace(inputs.protocol.provided_outputs[i], old_id, new_id)]],
          raised |-> "no"]

\* x.replace_protocol(old_id, new_id)
ReplaceProtocolCall(x, old_id, new_id) ==
    /\ last_call' = [op |-> "replace_protocol", self |-> x,
                     old_id |-> old_id, new_id |-> new_id,
                     answer |-> ReplaceProtocol(protocols[x], old_id, new_id).raised,
                     was |-> protocols]
    /\ protocols' = [protocols EXCEPT
                        ![x] = ReplaceProtocol(protocols[x], old_id, new_id).protocol]
    /\ UNCHANGED <<available_layers, layer_vars, other_vars>>

\* The ids of the nodes an input may take its value from, and which
\* replace_protocol is called with.
UpstreamIds == {"protocol_b", "protocol_c"}

\* The values an input may be given: its literal default, or the address of
\* the output of an upstream node.
UpstreamValues(type, property_name) ==
    {DefaultInputs(type)[property_name]}
        \cup (IF property_name = "allow_merging" THEN {}
              ELSE {ProtocolPath("value", <<id>>) : id \in UpstreamIds})

InitReplace ==
    /\ protocols \in
          [a : UNION {
                  {Protocol(type, "protocol_a", bound, inputs) :
                      bound \in BOOLEAN,
                      inputs \in {f \in [InputNames(type) ->
                                            UNION {UpstreamValues(type, n) :
                                                      n \in InputNames(type)}] :
                                     \A n \in DOMAIN f : f[n] \in UpstreamValues(type, n)}} :
                  type \in ProtocolTypes}]
    /\ last_call = NoCall
    /\ available_layers = EmptyDict
    /\ LayerIdle
    /\ OthersIdle

NextReplace ==
    \E old_id \in UpstreamIds \cup {"protocol_a"}, new_id \in UpstreamIds :
        ReplaceProtocolCall("a", old_id, new_id)

SpecReplace == InitReplace /\ [][NextReplace]_vars

(***************************************************************************)
(* SpecRace: two aggregation passes for one request, each the continuation *)
(* of a future of its own, run on different threads. Nothing locks the     *)
(* request: the passes interleave between any two operations on its lists  *)
(* and dictionaries, each of which the interpreter runs as a whole.        *)
(***************************************************************************)
Threads == {1, 2}

\* The outputs the interleaved passes carry.
RaceOutputs ==
    {CalculationLayerResult("P1", CalculatedProperty("P1", "S1"), NoVal, DirectoryList(<<"ok">>)),
     CalculationLayerResult("P1", CalculatedProperty("P1", "S1"), ResultException("P1"),
                            DirectoryList(<< >>)),
     CalculationLayerResult("P2", CalculatedProperty("P2", "S1"), NoVal, DirectoryList(<< >>))}

\* A pass before its continuation runs: its results and its local variables
\* (the index of the result, the position of the iteration over
\* queued_properties, matches, the matches still to remove), the entries
\* its remove calls took out of the queue and the number of times it has
\* invoked the callback.
Pass(outputs) ==
    [pc |-> "waiting", results |-> outputs, k |-> 0, index |-> 0,
     matches |-> << >>, todo |-> << >>, removed |-> << >>, called |-> 0]

\* continue / the end of the loop body: the next result, or the callback.
Continue(pass) ==
    [pass EXCEPT !.k = @ + 1,
                 !.pc = IF pass.k = Len(pass.results) THEN "callback" ELSE "head"]

\* The pass leaves the loop through the top-level guard.
Caught(pass) == [pass EXCEPT !.pc = "callback"]

RemoveRaises_Never(list, x) == FALSE

\* list.remove(x) raises ValueError when no element equals x.
RemoveRaises(list, x) == \A i \in DOMAIN list : list[i] # x

\* The dictionary the result of pass is routed to.
Target(pass) ==
    IF RoutesToEstimated(pass.results[pass.k]) THEN "estimated_properties"
    ELSE "unsuccessful_properties"

\* What no step of an interleaved pass changes.
race_frame == <<pc, synchronous, submitted_futures, callback_future, future_result, awaited,
                results, k, propagated, returned, outcomes, before, request0,
                protocol_vars, substance>>

\* results = list(results_future.result())
PassFetch(t) ==
    /\ passes[t].pc = "waiting"
    /\ passes' = [passes EXCEPT ![t] = Continue(passes[t])]
    /\ UNCHANGED <<server_request, stored, callbacks, race_frame>>

\* The loop body down to the storage of the data directories.
PassHead(t) ==
    /\ passes[t].pc = "head"
    /\ LET pass == passes[t]
           returned_output == pass.results[pass.k]
           matching == [pass EXCEPT !.pc = "match", !.index = 1, !.matches = << >>]
       IN  IF returned_output = NoVal
           THEN /\ passes' = [passes EXCEPT ![t] = Continue(pass)]
                /\ UNCHANGED <<server_request, stored>>
           ELSE IF ~IsCalculationLayerResult(returned_output)
           THEN /\ passes' = [passes EXCEPT ![t] = Caught(pass)]
                /\ server_request' = Guarded(server_request, "type")
                /\ UNCHANGED stored
           ELSE IF returned_output.exception # NoVal
           THEN /\ passes' = [passes EXCEPT ![t] = matching]
                /\ server_request' =
                      [server_request EXCEPT !.exceptions = Append(@, returned_output.exception)]
                /\ UNCHANGED stored
           ELSE IF returned_output.data_directories_to_store # NoVal
                   /\ returned_output.calculated_property # NoVal
           THEN LET kept == StoreDirectories(returned_output.data_directories_to_store.items,
                                             returned_output.calculated_property.substance,
                                             stored)
                IN  /\ stored' = kept.stored
                    /\ IF kept.raised
                       THEN /\ passes' = [passes EXCEPT ![t] = Caught(pass)]
                            /\ server_request' = Guarded(server_request, "storage")
                       ELSE /\ passes' = [passes EXCEPT ![t] = matching]
                            /\ UNCHANGED server_request
           ELSE /\ passes' = [passes EXCEPT ![t] = matching]
                /\ UNCHANGED <<server_request, stored>>
    /\ UNCHANGED <<callbacks, race_frame>>

\* One step of [x for x in server_request.queued_properties if x.id == ...]:
\* the list iterator reads the element at its position in the list as it is
\* now, or finds the position past the end.
PassMatch(t) ==
    /\ passes[t].pc = "match"
    /\ LET pass == passes[t]
           queue == server_request.queued_properties
       IN  IF pass.index <= Len(queue)
           THEN passes' =
                   [passes EXCEPT ![t].index = @ + 1,
                                  ![t].matches =
                                      IF queue[pass.index].id = pass.results[pass.k].property_id
                                      THEN Append(@, queue[pass.index]) ELSE @]
           ELSE passes' = [passes EXCEPT ![t].pc = "remove", ![t].todo = pass.matches]
    /\ UNCHANGED <<server_request, stored, callbacks, race_frame>>

\* One step of "for match in matches: queued_properties.remove(match)", and
\* after the last one the tests on matches and on the result.
PassRemove(t) ==
    /\ passes[t].pc = "remove"
    /\ LET pass == passes[t]
           returned_output == pass.results[pass.k]
           queue == server_request.queued_properties
       IN  IF pass.todo # << >>
           THEN IF RemoveRaises(queue, Head(pass.todo))
                THEN /\ passes' = [passes EXCEPT ![t] = Caught(pass)]
                     /\ server_request' = Guarded(server_request, "remove")
                ELSE /\ passes' = [passes EXCEPT ![t].todo = Tail(@),
                                                 ![t].removed = Append(@, Head(pass.todo))]
                     /\ server_request' =
                           [server_request EXCEPT
                               !.queued_properties = ListRemove(@, Head(pass.todo))]
           ELSE IF IsConflict(pass.matches)
           THEN /\ passes' = [passes EXCEPT ![t] = Caught(pass)]
                /\ server_request' = Guarded(server_request, "conflict")
           ELSE /\ passes' =
                      [passes EXCEPT ![t] =
                          IF Len(pass.matches) = 0 \/ returned_output.calculated_property = NoVal
                          THEN Continue(pass)
                          ELSE [pass EXCEPT !.pc = "check"]]
                /\ UNCHANGED server_request
    /\ UNCHANGED <<stored, callbacks, race_frame>>

\* if substance_id not in server_request.estimated_properties (or
\* unsuccessful_properties)
PassCheck(t) ==
    /\ passes[t].pc = "check"
    /\ LET pass == passes[t]
           substance_id == pass.results[pass.k].calculated_property.substance
       IN  passes' =
              [passes EXCEPT ![t].pc =
                  IF substance_id \in DOMAIN server_request[Target(pass)]
                  THEN "append" ELSE "create"]
    /\ UNCHANGED <<server_request, stored, callbacks, race_frame>>

\* server_request.estimated_properties[substance_id] = []
PassCreate(t) ==
    /\ passes[t].pc = "create"
    /\ LET pass == passes[t]
           substance_id == pass.results[pass.k].calculated_property.substance
           dictionary == server_request[Target(pass)]
       IN  /\ server_request' =
                 [server_request EXCEPT ![Target(pass)] =
                     [s \in DOMAIN dictionary \cup {substance_id} |->
                         IF s = substance_id THEN << >> ELSE dictionary[s]]]
           /\ passes' = [passes EXCEPT ![t].pc = "append"]
    /\ UNCHANGED <<stored, callbacks, race_frame>>

\* server_request.estimated_properties[substance_id].append(...)
PassAppend(t) ==
    /\ passes[t].pc = "append"
    /\ LET pass == passes[t]
           property == pass.results[pass.k].calculated_property
       IN  /\ server_request' =
                 [server_request EXCEPT ![Target(pass)] =
                     AppendUnder(@, property.substance, property)]
           /\ passes' = [passes EXCEPT ![t] = Continue(pass)]
    /\ UNCHANGED <<stored, callbacks, race_frame>>

\* callback(server_request)
PassCallback(t) ==
    /\ passes[t].pc = "callback"
    /\ callbacks' = Append(callbacks, server_request)
    /\ passes' = [passes EXCEPT ![t].pc = "done", ![t].called = @ + 1]
    /\ UNCHANGED <<server_request, stored, race_frame>>

InitRace ==
    /\ pc = "idle"
    /\ synchronous = FALSE
    /\ submitted_futures = << >>
    /\ callback_future = "none"
    /\ future_result = << >>
    /\ awaited = NoFuture
    /\ results = << >>
    /\ k = 0
    /\ \E queue \in Queues :
          /\ server_request = ServerEstimationRequest(queue)
          /\ request0 = ServerEstimationRequest(queue)
          /\ before = ServerEstimationRequest(queue)
    /\ stored = << >>
    /\ callbacks = << >>
    /\ propagated = FALSE
    /\ returned = TRUE
    /\ outcomes = << >>
    /\ protocols = << >>
    /\ last_call = NoCall
    /\ available_layers = EmptyDict
    /\ passes \in [Threads -> {Pass(outputs) : outputs \in SeqsUpTo(RaceOutputs, MaxPassResults)}]
    /\ substance = NoVal

NextRace ==
    \E t \in Threads :
        \/ PassFetch(t)
        \/ PassHead(t)
        \/ PassMatch(t)
        \/ PassRemove(t)
        \/ PassCheck(t)
        \/ PassCreate(t)
        \/ PassAppend(t)
        \/ PassCallback(t)

SpecRace == InitRace /\ [][NextRace]_vars

(***************************************************************************)
(* SpecUuid: set_uuid calls on one node. Ids are strings; the tagged id of *)
(* a node is the job identifier, a separator and the id.                   *)
(***************************************************************************)
\* The job identifiers set_uuid is called with.
Uuids == {"1", "2"}

\* The ids nodes are constructed with; the second one holds the characters
\* of a job identifier.
NodeIds == {"protocol_a", "protocol_1"}

\* The positions at which value occurs in id.
Occurrences(id, value) ==
    {i \in 1..(Len(id) - Len(value) + 1) : SubSeq(id, i, i + Len(value) - 1) = value}

Find_WholeId(id, value) == id = value

\* id.find(value) >= 0
Find(id, value) == Occurrences(id, value) # {}

\* graph.append_uuid(protocol_id, uuid)
AppendUuid(protocol_id, uuid) ==
    IF Find(protocol_id, uuid) THEN protocol_id ELSE uuid \o "|" \o protocol_id

\* ProtocolPath.append_uuid(uuid): every node id of the path is tagged; a
\* path which names no node stays as it is.
PathAppendUuid(path, uuid) ==
    [path EXCEPT !.protocol_ids =
        [i \in DOMAIN path.protocol_ids |-> AppendUuid(path.protocol_ids[i], uuid)]]

\* The first loop of set_uuid, over self.required_inputs from index i on:
\* the node it leaves, and the exception which ended it, if any.
RECURSIVE SetUuidInputsFrom(_, _, _)
SetUuidInputsFrom(self, value, i) ==
    IF i > Len(self.required_inputs) THEN [protocol |-> self, raised |-> "no"]
    ELSE LET input_path == PathAppendUuid(self.required_inputs[i], value)
             tagged == [self EXCEPT !.required_inputs[i] = input_path]
             input_value == GetValue(tagged, input_path)
         IN
         IF input_value.raised # "no"
         THEN [protocol |-> tagged, raised |-> input_value.raised]
         ELSE IF input_value.value.type # "ProtocolPath"
         THEN SetUuidInputsFrom(tagged, value, i + 1)
         ELSE SetUuidInputsFrom(
                  [tagged EXCEPT !.values[input_path.property_name] =
                      PathAppendUuid(input_value.value, value)],
                  value, i + 1)

\* BaseProtocol.set_uuid
SetUuid(self, value) ==
    IF Find(self.id, value) THEN [protocol |-> self, raised |-> "no"]
    ELSE LET inputs == SetUuidInputsFrom([self EXCEPT !.id = AppendUuid(self.id, value)],
                                         value, 1)
         IN  IF inputs.raised # "no" THEN inputs
             ELSE [protocol |->
                      [inputs.protocol EXCEPT !.provided_outputs =
                          [i \in DOMAIN inputs.protocol.provided_outputs |->
                              PathAppendUuid(inputs.protocol.provided_outputs[i], value)]],
                   raised |-> "no"]

\* x.set_uuid(value); applied holds the job identifiers of the calls so far.
SetUuidCall(x, value) ==
    /\ last_call' = [op |-> "set_uuid", self |-> x, value |-> value,
                     answer |-> SetUuid(protocols[x], value).raised,
                     applied |-> (IF last_call.op = "set_uuid" THEN last_call.applied
                                  ELSE << >>) \o <<value>>,
                     was |-> protocols]
    /\ Len(last_call'.applied) <= MaxCalls
    /\ protocols' = [protocols EXCEPT ![x] = SetUuid(protocols[x], value).protocol]
    /\ UNCHANGED <<available_layers, layer_vars, other_vars>>

\* A node of any class which does not override set_uuid, as constructed or
\* with its addresses bound to its id, whose inputs hold their defaults or
\* the address of an output of an upstream node.
InitUuid ==
    /\ protocols \in
          [a : UNION {
                  {Protocol(type, id, bound, inputs) :
                      id \in NodeIds,
                      bound \in BOOLEAN,
                      inputs \in {f \in [InputNames(type) ->
                                            UNION {UpstreamValues(type, n) :
                                                      n \in InputNames(type)}] :
                                     \A n \in DOMAIN f : f[n] \in UpstreamValues(type, n)}} :
                  type \in ProtocolTypes \ {"ProtocolGroup"}}]
    /\ last_call = NoCall
    /\ available_layers = EmptyDict
    /\ LayerIdle
    /\ OthersIdle

NextUuid == \E value \in Uuids : SetUuidCall("a", value)

SpecUuid == InitUuid /\ [][NextUuid]_vars

(***************************************************************************)
(* SpecSubstance: add_component calls on one Substance (substances.py).    *)
(* Mole fractions are counted in parts of 1 / Whole, so that 1.0 is Whole. *)
(***************************************************************************)
\* A Python str.
Str(s) == [type |-> "str", value |-> s]

\* Substance.Component(label): identifier gives the label.
Components == {Str("water"), Str("methanol")}

\* The Amount objects, by class.
Amount(class, value) == [type |-> class, value |-> value]

\* Substance.MoleFraction.__init__: refuses a value outside (0.0, 1.0].
MoleFractionRaises(value) == value <= 0 \/ value > Whole

\* The amounts a caller can construct and pass to add_component.
Amounts ==
    {Amount("MoleFraction", value) : value \in {v \in 0..(Whole + 1) : ~MoleFractionRaises(v)}}
        \cup {Amount("ExactAmount", 1)}

\* Substance.__init__
EmptySubstance == [amounts |-> [c \in {} |-> NoVal], components |-> << >>]

RECURSIVE SumOf(_)
SumOf(values) ==
    IF values = << >> THEN 0 ELSE Head(values).value + SumOf(Tail(values))

\* What "for amount in self._amounts" runs over: iterating a dict gives its
\* keys, here the component identifiers (strings), in insertion order.
IteratedAmounts(self) == self.components

\* amount.value + sum([amount.value for amount in self._amounts
\*                     if isinstance(amount, Substance.MoleFraction)])
TotalMoleFraction(self, amount) ==
    amount.value
        + SumOf(SelectSeq(IteratedAmounts(self), LAMBDA x : x.type = "MoleFraction"))

\* Substance.add_component: the substance it leaves and what it raised.
AddComponent(self, component, amount) ==
    IF amount.type = "MoleFraction" /\ TotalMoleFraction(self, amount) > Whole
    THEN [substance |-> self, raised |-> "ValueError"]
    ELSE IF component \notin DOMAIN self.amounts
    THEN [substance |->
             [amounts |-> [c \in DOMAIN self.amounts \cup {component} |->
                              IF c = component THEN amount ELSE self.amounts[c]],
              components |-> Append(self.components, component)],
          raised |-> "no"]
    ELSE LET existing_amount == self.amounts[component] IN
         IF existing_amount.type # amount.type
         THEN [substance |-> self, raised |-> "ValueError"]
         ELSE IF amount.type = "MoleFraction"
                 /\ MoleFractionRaises(existing_amount.value + amount.value)
         THEN [substance |-> self, raised |-> "ValueError"]
         ELSE [substance |->
                  [self EXCEPT !.amounts[component] =
                      Amount(amount.type, existing_amount.value + amount.value)],
               raised |-> "no"]

\* substance.add_component(component, amount); calls counts the calls made.
AddComponentCall(component, amount) ==
    /\ last_call.op = "add_component" => last_call.calls < MaxCalls
    /\ last_call' = [op |-> "add_component", component |-> component, amount |-> amount,
                     answer |-> AddComponent(substance, component, amount).raised,
                     calls |-> IF last_call.op = "add_component"
                               THEN last_call.calls + 1 ELSE 1,
                     was |-> substance]
    /\ substance' = AddComponent(substance, component, amount).substance
    /\ UNCHANGED <<protocols, available_layers, layer_vars, passes>>

InitSubstance ==
    /\ substance = EmptySubstance
    /\ passes = << >>
    /\ protocols = << >>
    /\ last_call = NoCall
    /\ available_layers = EmptyDict
    /\ LayerIdle

NextSubstance ==
    \E component \in Components, amount \in Amounts : AddComponentCall(component, amount)

SpecSubstance == InitSubstance /\ [][NextSubstance]_vars

(***************************************************************************)
(* Helpers of the properties below.                                        *)
(***************************************************************************)
\* The loop body has run at least once.
Processed == outcomes # << >>

\* The result the last loop pass worked on.
LastOutput == results[Len(outcomes)]

\* dictionary.get(substance_id, [])
DictGet(dictionary, substance_id) ==
    IF substance_id \in DOMAIN dictionary THEN dictionary[substance_id] ELSE << >>

\* Both dictionaries hold the same lists under every key but substance_id.
SameElsewhere(d1, d2, substance_id) ==
    \A t \in Substances \ {substance_id} : DictGet(d1, t) = DictGet(d2, t)

\* The queue without its entries of id property_id, the others in order.
Without(queue, property_id) == SelectSeq(queue, LAMBDA x : x.id # property_id)

\* The number of entries of list equal to x.
RECURSIVE Count(_, _)
Count(list, x) ==
    IF list = << >> THEN 0
    ELSE (IF Head(list) = x THEN 1 ELSE 0) + Count(Tail(list), x)

IsPrefix(a, b) == Len(a) <= Len(b) /\ SubSeq(b, 1, Len(a)) = a

\* The number of matches the last loop pass has to find for its result.
LastMatches == Len(Matches(before.queued_properties, LastOutput.property_id))

\* No data directory of the result makes the storage step raise.
StoresCleanly(output) ==
    \/ output.exception # NoVal
    \/ output.calculated_property = NoVal
    \/ output.data_directories_to_store = NoVal
    \/ \A i \in DOMAIN output.data_directories_to_store.items :
          output.data_directories_to_store.items[i] # "faulty"

\* The whole loop over a list of outputs, as one function of the request.
RECURSIVE Aggregate(_, _)
Aggregate(req, outputs) ==
    IF outputs = << >> THEN req
    ELSE LET body == LoopBody(req, << >>, Head(outputs))
         IN  IF body.raised # NotRaised THEN Guarded(body.request, body.raised)
             ELSE Aggregate(body.request, Tail(outputs))

(***************************************************************************)
(* C1 (Spec). Every aggregation pass invokes the callback exactly once     *)
(* with the request, whatever the results are: the pass can always take    *)
(* its next step, no exception leaves it, the callback has not been        *)
(* invoked before the pass ends and has been invoked once, with the        *)
(* request as the pass left it, when it has ended.                         *)
(***************************************************************************)
C1_CallbackExactlyOnce ==
    /\ pc \in {"waiting", "loop", "callback", "done", "raised"}
    /\ pc = "waiting" => FutureDone(awaited)
    /\ pc = "loop" => k <= Len(results)
    /\ pc \in {"waiting", "loop", "callback"} => callbacks = << >>
    /\ pc \in {"done", "raised"} => callbacks = <<server_request>> /\ ~propagated

\* A pass over [None, a result whose property id is queued twice] ended.
C1_Witness ==
    /\ pc = "done"
    /\ outcomes = <<"none", "conflict">>
    /\ callbacks = <<server_request>>

(***************************************************************************)
(* C3 (Spec). As stated: a result with no exception, a calculated property *)
(* and a property id matching exactly one queued entry has that entry      *)
(* removed (the others keep their order), its property appended once to    *)
(* estimated_properties under its substance id, and nothing added to       *)
(* unsuccessful_properties or exceptions.                                  *)
(***************************************************************************)
C3_Case ==
    /\ Processed
    /\ IsCalculationLayerResult(LastOutput)
    /\ LastOutput.exception = NoVal
    /\ LastOutput.calculated_property # NoVal
    /\ LastMatches = 1

C3_Effect ==
    LET property == LastOutput.calculated_property
        substance_id == property.substance
    IN  /\ server_request.queued_properties =
              Without(before.queued_properties, LastOutput.property_id)
        /\ DictGet(server_request.estimated_properties, substance_id) =
              Append(DictGet(before.estimated_properties, substance_id), property)
        /\ SameElsewhere(server_request.estimated_properties,
                         before.estimated_properties, substance_id)
        /\ server_request.unsuccessful_properties = before.unsuccessful_properties
        /\ server_request.exceptions = before.exceptions

C4_Case ==
    /\ Processed
    /\ IsCalculationLayerResult(LastOutput)
    /\ LastOutput.exception # NoVal
    /\ LastMatches = 1

C4_Recorded ==
    /\ server_request.exceptions = Append(before.exceptions, LastOutput.exception)
    /\ server_request.queued_properties =
          Without(before.queued_properties, LastOutput.property_id)
    /\ server_request.estimated_properties = before.estimated_properties

C4_Routed ==
    LET property == LastOutput.calculated_property
    IN  /\ property # NoVal
        /\ DictGet(server_request.unsuccessful_properties, property.substance) =
              Append(DictGet(before.unsuccessful_properties, property.substance), property)
        /\ SameElsewhere(server_request.unsuccessful_properties,
                         before.unsuccessful_properties, property.substance)

C5_Case ==
    /\ Processed
    /\ LastOutput # NoVal
    /\ \/ ~IsCalculationLayerResult(LastOutput)
       \/ StoresCleanly(LastOutput) /\ LastMatches > 1

\* C5: after a result of the wrong type or a conflict, the results after it
\* have all been processed when the callback is due.
C5_BatchContinues ==
    (pc \in {"callback", "done"} /\ C5_Case) => Len(outcomes) = Len(results)

(***************************************************************************)
(* C6 (Spec). As stated: a result whose property id matches more than one  *)
(* queued entry has exactly one conflict error appended to exceptions      *)
(* (after its own exception, when it carries one), is routed to neither    *)
(* estimated_properties nor unsuccessful_properties, and nothing is raised *)
(* to the caller.                                                          *)
(***************************************************************************)
C6_Case ==
    /\ Processed
    /\ IsCalculationLayerResult(LastOutput)
    /\ LastMatches > 1

C6_Effect ==
    /\ server_request.exceptions =
          before.exceptions
          \o (IF LastOutput.exception # NoVal THEN <<LastOutput.exception>> ELSE << >>)
          \o <<UnhandledException("conflict")>>
    /\ server_request.estimated_properties = before.estimated_properties
    /\ server_request.unsuccessful_properties = before.unsuccessful_properties
    /\ ~propagated
    /\ pc \in {"callback", "done"}

C7_Wrapped == {UnhandledException(cause) : cause \in {"future", "type", "conflict", "storage"}}

C7_CountWrapped(exceptions) ==
    Cardinality({i \in DOMAIN exceptions : exceptions[i] \in C7_Wrapped})

C7_RaisedInLoop ==
    Processed /\ outcomes[Len(outcomes)] \in {"type", "conflict", "storage"}

\* C7: a raise is contained, wrapped once, and keeps the earlier mutations.
C7_FailureContained ==
    /\ ~propagated
    /\ (pc \in {"callback", "done"} /\ callback_future = "error") =>
          server_request = [request0 EXCEPT !.exceptions = <<UnhandledException("future")>>]
    /\ C7_RaisedInLoop =>
          /\ pc \in {"callback", "done"}
          /\ server_request.estimated_properties = before.estimated_properties
          /\ server_request.unsuccessful_properties = before.unsuccessful_properties
          /\ IsPrefix(before.exceptions, server_request.exceptions)
          /\ C7_CountWrapped(server_request.exceptions) = 1
          /\ C7_CountWrapped(before.exceptions) = 0
          /\ server_request.exceptions[Len(server_request.exceptions)] \in C7_Wrapped
          /\ \A i \in DOMAIN server_request.queued_properties :
                Count(before.queued_properties, server_request.queued_properties[i]) = 1
    /\ pc = "done" => callbacks = <<server_request>>

\* The storage step raised on the second result, after the first one had
\* been routed, and the callback got the request.
C7_Witness ==
    /\ pc = "done"
    /\ outcomes = <<"unsuccessful", "storage">>
    /\ before # request0
    /\ callbacks = <<server_request>>

(***************************************************************************)
(* C2 (SpecAwait). In both modes the aggregation of a submission (the      *)
(* fetch of the results, any change of the request, the callback) does not *)
(* begin before every submitted unit has finished: it waits on the one     *)
(* barrier future, and a strict subset of finished units never starts it.  *)
(***************************************************************************)
C2_AggregationBegun ==
    \/ pc \in {"loop", "callback", "done"}
    \/ server_request # request0
    \/ callbacks # << >>
    \/ outcomes # << >>

\* C2: once the aggregation has begun, the barrier and every unit have resolved.
C2_BarrierBeforeAggregation ==
    C2_AggregationBegun =>
        /\ callback_future \in {"finished", "error"}
        /\ \A u \in DOMAIN submitted_futures : submitted_futures[u] = "finished"

\* The call is waiting on the barrier while one of two units has finished
\* and the other has not.
C2_Witness ==
    /\ pc = "waiting"
    /\ ~C2_AggregationBegun
    /\ Len(submitted_futures) = 2
    /\ submitted_futures[1] = "finished"
    /\ submitted_futures[2] = "pending"

(***************************************************************************)
(* C8 (SpecAwait). When the backend rejects the submission of the barrier  *)
(* task, the error reaches the caller of _await_results: the callback is   *)
(* never invoked for that call and the request is left as it was.          *)
(***************************************************************************)
C8_RejectionPropagates ==
    callback_future = "rejected" =>
        /\ propagated
        /\ pc = "raised"
        /\ callbacks = << >>
        /\ server_request = request0
        /\ outcomes = << >>

\* The submission was rejected and every unit has finished since.
C8_Witness ==
    /\ callback_future = "rejected"
    /\ propagated
    /\ Len(submitted_futures) = 2
    /\ \A u \in DOMAIN submitted_futures : submitted_futures[u] = "finished"

(***************************************************************************)
(* C9 (SpecAwait). For the same outputs of the units and the same initial  *)
(* request, the synchronous and the asynchronous mode end with the same    *)
(* request (the one function Aggregate of the request and the outputs,     *)
(* whatever the mode and the order in which the units finish) and one      *)
(* invocation of the callback; in synchronous mode the call has not        *)
(* returned before the callback was invoked.                               *)
(***************************************************************************)
C9_FinalRequest ==
    IF callback_future = "error"
    THEN [request0 EXCEPT !.exceptions = <<UnhandledException("future")>>]
    ELSE Aggregate(request0, future_result)

\* C9: both modes end in C9_FinalRequest with one callback; a synchronous call
\* returns only after it.
C9_ModesAgree ==
    /\ pc = "done" =>
          /\ server_request = C9_FinalRequest
          /\ callbacks = <<C9_FinalRequest>>
    /\ (synchronous /\ returned /\ ~propagated) => Len(callbacks) = 1
    /\ Len(callbacks) <= 1

\* A synchronous call returned after a pass over two outputs which changed
\* the request.
C9_Witness ==
    /\ synchronous
    /\ returned
    /\ pc = "done"
    /\ Len(outcomes) = 2
    /\ server_request.estimated_properties # request0.estimated_properties
    /\ callbacks = <<server_request>>

(***************************************************************************)
(* C10 (SpecMerge). For two nodes of the same declared type which both     *)
(* allow merging, self.can_merge(other) is true exactly when every locally *)
(* scoped input of self tagged ExactlyEqual is also a required input of    *)
(* other and holds the same value on both; the values of the inputs with   *)
(* another merge behaviour or none, and the inputs addressed outside the   *)
(* node, do not enter the answer.                                          *)
(***************************************************************************)
C10_Self == protocols[last_call.self]

C10_Other == protocols[last_call.other]

C10_LocallyScoped(protocol, path) ==
    \/ path.protocol_ids = << >>
    \/ path.protocol_ids = <<protocol.id>>

C10_ExactlyEqualInputs ==
    {i \in DOMAIN C10_Self.required_inputs :
        /\ C10_LocallyScoped(C10_Self, C10_Self.required_inputs[i])
        /\ MergeBehaviorOf(C10_Self.type, C10_Self.required_inputs[i].property_name)
              = "ExactlyEqual"}

C10_Case ==
    /\ last_call.op = "can_merge"
    /\ C10_Self.type = C10_Other.type
    /\ C10_Self.values["allow_merging"] = Bool(TRUE)
    /\ C10_Other.values["allow_merging"] = Bool(TRUE)

\* C10: can_merge is true exactly when the local ExactlyEqual inputs of self
\* are inputs of other with equal values.
C10_CanMergeExactlyEqual ==
    C10_Case =>
        (last_call.answer = "True" <=>
            \A i \in C10_ExactlyEqualInputs :
                LET path == C10_Self.required_inputs[i] IN
                /\ \E j \in DOMAIN C10_Other.required_inputs :
                       C10_Other.required_inputs[j] = path
                /\ C10_Self.values[path.property_name] = C10_Other.values[path.property_name])

\* a.can_merge(b) was true for two simulations which differ in an input
\* tagged GreatestValue and one tagged SmallestValue.
C10_Witness ==
    /\ C10_Case
    /\ last_call.self = "a" /\ last_call.other = "b"
    /\ last_call.answer = "True"
    /\ C10_Self.type = "RunOpenMMSimulation"
    /\ C10_Self.values["steps"] # C10_Other.values["steps"]
    /\ C10_Self.values["timestep"] # C10_Other.values["timestep"]

(***************************************************************************)
(* C11 (SpecMerge). When the declared types of the two nodes of a          *)
(* can_merge call differ, also when one type is a subclass of the other,   *)
(* the call answers False, and so does the call in the other direction,    *)
(* whatever values the inputs hold.                                        *)
(***************************************************************************)
C11_Case ==
    /\ last_call.op = "can_merge"
    /\ protocols[last_call.self].type # protocols[last_call.other].type

\* C11: nodes of different declared types cannot be merged, in either direction.
C11_DifferentTypesNeverMerge ==
    C11_Case =>
        /\ last_call.answer = "False"
        /\ CanMerge(protocols[last_call.other], protocols[last_call.self]) = "False"

(***************************************************************************)
(* C19 (SpecMerge). A can_merge call does not answer True when merging is  *)
(* disabled on the node it is called on or on the node it is given; the    *)
(* second is seen through allow_merging being an input compared for        *)
(* equality.                                                               *)
(***************************************************************************)
C19_Case ==
    /\ last_call.op = "can_merge"
    /\ \/ ~Truthy(protocols[last_call.self].values["allow_merging"])
       \/ ~Truthy(protocols[last_call.other].values["allow_merging"])

\* C19: can_merge is false when either node has merging disabled.
C19_MergingDisabled == C19_Case => last_call.answer = "False"

\* Only the second node has merging disabled; the nodes agree in type, in
\* addresses and in every other input.
C19_Witness ==
    /\ C19_Case
    /\ last_call.answer = "False"
    /\ Truthy(protocols[last_call.self].values["allow_merging"])
    /\ protocols[last_call.self].type = protocols[last_call.other].type
    /\ protocols[last_call.self].required_inputs = protocols[last_call.other].required_inputs
    /\ \A n \in InputNames(protocols[last_call.self].type) \ {"allow_merging"} :
           protocols[last_call.self].values[n] = protocols[last_call.other].values[n]

(***************************************************************************)
(* C12 (SpecMerge). After self.merge(other) on two nodes for which         *)
(* self.can_merge(other) was True, the call has not raised, every locally  *)
(* scoped input of self tagged GreatestValue holds the greater of the two  *)
(* values the nodes held before the call, and every one tagged             *)
(* SmallestValue the smaller.                                              *)
(***************************************************************************)
C12_Was(x) == last_call.was[x]

C12_Case ==
    /\ last_call.op = "merge"
    /\ CanMerge(C12_Was(last_call.self), C12_Was(last_call.other)) = "True"

C12_Expected(merge_behavior, own, others) ==
    IF merge_behavior = "GreatestValue"
    THEN (IF own.value >= others.value THEN own ELSE others)
    ELSE (IF own.value <= others.value THEN own ELSE others)

\* C12: a merge keeps the maximum of GreatestValue inputs and the minimum of
\* SmallestValue inputs.
C12_MergeKeepsExtremes ==
    C12_Case =>
        /\ last_call.answer = "no"
        /\ \A i \in DOMAIN C12_Was(last_call.self).required_inputs :
               LET path == C12_Was(last_call.self).required_inputs[i]
                   n == path.property_name
                   merge_behavior == MergeBehaviorOf(C12_Was(last_call.self).type, n)
               IN  (/\ C10_LocallyScoped(C12_Was(last_call.self), path)
                    /\ merge_behavior \in {"GreatestValue", "SmallestValue"})
                   => protocols[last_call.self].values[n]
                        = C12_Expected(merge_behavior,
                                       C12_Was(last_call.self).values[n],
                                       C12_Was(last_call.other).values[n])

(***************************************************************************)
(* C20 (SpecMerge). self.merge(other) leaves every input of self unchanged *)
(* whose address is not locally scoped or whose merge behaviour is neither *)
(* SmallestValue nor GreatestValue (ExactlyEqual, Unmanaged or none), and  *)
(* no input which changes is left holding None.                            *)
(***************************************************************************)
C20_Case == last_call.op = "merge"

C13_Case ==
    /\ last_call.op = "set_value"
    /\ last_call.path.property_name \in OutputNames(last_call.was[last_call.self].type)
    /\ last_call.path.protocol_ids \in {<< >>, <<last_call.was[last_call.self].id>>}

\* C13: outputs cannot be set through set_value, by a local or an own-id address.
C13_OutputsReadOnly ==
    C13_Case =>
        /\ last_call.answer # "no"
        /\ protocols = last_call.was

(***************************************************************************)
(* C14 (SpecValue). A get_value or set_value call raises and leaves the    *)
(* node as it was when the address targets another node id or names        *)
(* something which is not a declared input or output of the node, such as  *)
(* another attribute of the node object.                                   *)
(***************************************************************************)
C14_Case ==
    /\ last_call.op \in {"get_value", "set_value"}
    /\ LET protocol == last_call.was[last_call.self] IN
       \/ /\ last_call.path.protocol_ids # << >>
          /\ last_call.path.protocol_ids[1] # protocol.id
       \/ last_call.path.property_name
             \notin InputNames(protocol.type) \cup OutputNames(protocol.type)

\* C14: addresses of other nodes and of undeclared properties are refused.
C14_UnknownPropertyRefused ==
    C14_Case =>
        /\ last_call.answer # "no"
        /\ protocols = last_call.was

(***************************************************************************)
(* C15 (SpecSchema). When a node as its constructor leaves it imports the  *)
(* schema of a node of its own type, the import does not raise and the     *)
(* schema the importing node then exports equals the imported one: same    *)
(* id, same type and same input map.                                       *)
(***************************************************************************)
C15_Fresh(protocol) ==
    protocol \in {Protocol(protocol.type, protocol.id, FALSE, DefaultInputs(protocol.type))}

C15_Case ==
    /\ last_call.op = "set_schema"
    /\ C15_Fresh(last_call.was[last_call.self])
    /\ last_call.was[last_call.self].type = last_call.schema.type

C16_Case ==
    /\ last_call.op = "set_schema"
    /\ last_call.was[last_call.self].type # last_call.schema.type

\* C16: a schema of another type is refused and none of its inputs is applied.
C16_TypeMismatchRefused ==
    C16_Case =>
        /\ last_call.answer = "ValueError"
        /\ protocols[last_call.self].values = last_call.was[last_call.self].values

\* A fresh AveragePropertyProtocol was given the schema of an
\* ExtractAverageStatistic which sets inputs the node has (allow_merging,
\* bootstrap_iterations) to other values than the node holds.
C16_Witness ==
    /\ C16_Case
    /\ last_call.answer = "ValueError"
    /\ last_call.was[last_call.self].type = "AveragePropertyProtocol"
    /\ last_call.schema.type = "ExtractAverageStatistic"
    /\ \E i \in DOMAIN last_call.schema.inputs :
           /\ last_call.schema.inputs[i].path = <<"allow_merging">>
           /\ last_call.schema.inputs[i].value = Bool(FALSE)
    /\ \E i \in DOMAIN last_call.schema.inputs :
           /\ last_call.schema.inputs[i].path = <<"bootstrap_iterations">>
           /\ last_call.schema.inputs[i].value = Integer(1)
    /\ protocols[last_call.self].values["allow_merging"] = Bool(TRUE)

(***************************************************************************)
(* C17 (SpecRegistry). Decorating a class whose name is already in the     *)
(* registry raises and leaves the registry as it was, and after any        *)
(* sequence of decorations the registry holds exactly the names decorated, *)
(* each mapped to the first class decorated under that name.               *)
(***************************************************************************)
C17_First(name) ==
    LET history == last_call.history
        i == CHOOSE i \in DOMAIN history :
                 /\ history[i].name = name
                 /\ \A j \in 1..(i - 1) : history[j].name # name
    IN  history[i]

\* C17: a duplicate registration is refused and the first registration stays.
C17_FirstRegistrationWins ==
    /\ (last_call.op = "register" /\ last_call.class.name \in DOMAIN last_call.was)
          => (last_call.answer = "ValueError" /\ available_layers = last_call.was)
    /\ DOMAIN available_layers
          = {last_call.history[i].name : i \in DOMAIN last_call.history}
    /\ \A name \in DOMAIN available_layers : available_layers[name] = C17_First(name)

\* A second class of an already registered name was refused, after another
\* name had been registered in between.
C17_Witness ==
    /\ Len(last_call.history) = 3
    /\ last_call.history[1].name = last_call.history[3].name
    /\ last_call.history[1] # last_call.history[3]
    /\ last_call.history[2].name # last_call.history[1].name
    /\ last_call.answer = "ValueError"
    /\ available_layers[last_call.class.name] = last_call.history[1]

(***************************************************************************)
(* C18 (SpecReplace). After replace_protocol(old_id, new_id) every input   *)
(* and output address of the node, and every input value which is an       *)
(* address, is what it was with each old_id replaced by new_id, so that    *)
(* none references old_id any more; this holds for the values of inputs    *)
(* whose own address is local and of inputs whose own address is bound to  *)
(* the node's id.                                                          *)
(***************************************************************************)
C18_Case ==
    /\ last_call.op = "replace_protocol"
    /\ last_call.old_id # last_call.new_id

C18_Redirected(path) == PathReplace(path, last_call.old_id, last_call.new_id)

C21_Listed(output) ==
    IF /\ IsCalculationLayerResult(output)
       /\ output.exception = NoVal
       /\ output.calculated_property # NoVal
       /\ output.data_directories_to_store # NoVal
    THEN output.data_directories_to_store.items
    ELSE << >>

\* The store calls due for the first n results when a call is due for the
\* listed directories of kind called: (substance id, directory), in order.
RECURSIVE C21_Calls(_, _)
C21_Calls(n, called) ==
    IF n = 0 THEN << >>
    ELSE LET output == results[n]
             due == SelectSeq(C21_Listed(output), LAMBDA d : d \in called)
         IN  C21_Calls(n - 1, called)
             \o [i \in 1..Len(due) |-> <<output.calculated_property.substance, due[i]>>]

\* The last result has no exception, a property, and lists only directories
\* which do not exist or hold no manifest.
C21_MissingCase ==
    /\ Processed
    /\ C21_Listed(LastOutput) # << >>
    /\ \A i \in DOMAIN C21_Listed(LastOutput) : IsInvalidDirectory(C21_Listed(LastOutput)[i])

\* What the loop body and the guard make of the request for one result.
C21_After(req, output) ==
    LET body == LoopBody(req, << >>, output)
    IN  IF body.raised # NotRaised THEN Guarded(body.request, body.raised)
        ELSE body.request

\* Such a result does to the request what it does when it lists nothing:
\* the missing directory adds no exception (the only one there can be is
\* that of a property id conflict), and with one match the result is
\* routed to estimated_properties.
C21_AsIfNoneListed ==
    C21_MissingCase =>
        /\ server_request =
              C21_After(before,
                        [LastOutput EXCEPT !.data_directories_to_store = DirectoryList(<< >>)])
        /\ LastMatches <= 1 => server_request.exceptions = before.exceptions
        /\ LastMatches = 1 => C3_Effect
        /\ outcomes[Len(outcomes)] \in {"estimated", "unmatched", "conflict"}

C22_Case ==
    /\ Processed
    /\ IsCalculationLayerResult(LastOutput)
    /\ \A i \in DOMAIN before.queued_properties :
          before.queued_properties[i].id # LastOutput.property_id

C22_Effect ==
    /\ server_request.queued_properties = before.queued_properties
    /\ server_request.estimated_properties = before.estimated_properties
    /\ server_request.unsuccessful_properties = before.unsuccessful_properties
    /\ server_request.exceptions =
          before.exceptions
          \o (IF LastOutput.exception # NoVal THEN <<LastOutput.exception>> ELSE << >>)
    /\ pc \in {"callback", "done"} => Len(outcomes) = Len(results)

C23_Case == Processed /\ LastOutput = NoVal

C23_NoneSkipped ==
    C23_Case =>
        /\ server_request.queued_properties = before.queued_properties
        /\ server_request.estimated_properties = before.estimated_properties
        /\ server_request.unsuccessful_properties = before.unsuccessful_properties
        /\ server_request.exceptions = before.exceptions
        /\ ~propagated
        /\ pc \in {"callback", "done"} => Len(outcomes) = Len(results)

\* A None entry was passed over after an earlier result had been routed, and
\* the pass then went on to its callback.
C23_Witness ==
    /\ C23_Case
    /\ outcomes = <<"estimated", "none">>
    /\ before.queued_properties # << >>
    /\ pc = "done"

(***************************************************************************)
(* C26 (Spec). Conservation of queued properties: when a pass has ended,   *)
(* every entry it removed from queued_properties has a property of its id  *)
(* in exactly one of estimated_properties and unsuccessful_properties.      *)
(***************************************************************************)
\* The dictionary holds a property of id property_id under some substance.
C26_Reported(dictionary, property_id) ==
    \E s \in DOMAIN dictionary :
        \E i \in DOMAIN dictionary[s] : dictionary[s][i].id = property_id

\* The entry (an object of the queue the pass started with) is still queued.
C26_Queued(entry) ==
    \E i \in DOMAIN server_request.queued_properties :
        server_request.queued_properties[i] = entry

C26_Conservation ==
    pc \in {"callback", "done"} =>
        \A i \in DOMAIN request0.queued_properties :
            LET entry == request0.queued_properties[i]
            IN  ~C26_Queued(entry) =>
                    (C26_Reported(server_request.estimated_properties, entry.id)
                        # C26_Reported(server_request.unsuccessful_properties, entry.id))

(***************************************************************************)
(* C27 (SpecRace). Two passes for one request run interleaved. For a       *)
(* property queued once for which both passes carry a result: its entry is *)
(* taken out of queued_properties by at most one remove call, at most one  *)
(* property of its id is appended to estimated_properties and              *)
(* unsuccessful_properties together, and each pass goes on to invoke its   *)
(* callback once: no pass is ever stuck, and a pass which has ended has    *)
(* called back exactly once.                                               *)
(***************************************************************************)
\* The number of properties of id property_id in the lists of a dictionary.
RECURSIVE C27_CountIn(_, _)
C27_CountIn(dictionary, property_id) ==
    IF DOMAIN dictionary = {} THEN 0
    ELSE LET s == CHOOSE x \in DOMAIN dictionary : TRUE
         IN  Len(SelectSeq(dictionary[s], LAMBDA p : p.id = property_id))
             + C27_CountIn([x \in DOMAIN dictionary \ {s} |-> dictionary[x]], property_id)

\* The pass carries a result for property_id.
C27_Carries(t, property_id) ==
    \E i \in DOMAIN passes[t].results :
        /\ passes[t].results[i] # NoVal
        /\ passes[t].results[i].property_id = property_id

\* property_id is queued once and both passes carry a result for it.
C27_Case(property_id) ==
    /\ passes # << >>
    /\ Len(Matches(request0.queued_properties, property_id)) = 1
    /\ \A t \in Threads : C27_Carries(t, property_id)

\* The number of remove calls of the passes which took out an entry of id
\* property_id.
C27_Removals(property_id) ==
    Len(Matches(passes[1].removed, property_id))
    + Len(Matches(passes[2].removed, property_id))

\* A step of pass t can be taken.
C27_CanStep(t) ==
    ENABLED (\/ PassFetch(t) \/ PassHead(t) \/ PassMatch(t) \/ PassRemove(t)
             \/ PassCheck(t) \/ PassCreate(t) \/ PassAppend(t) \/ PassCallback(t))

C28_Symmetric ==
    last_call.op = "can_merge" =>
        CanMerge(protocols[last_call.other], protocols[last_call.self]) = last_call.answer

(***************************************************************************)
(* C29 (SpecSchema). A schema import which fails (the type tag does not    *)
(* match, or an input address is unknown, targets another node or names an *)
(* output) leaves the node as it was before the call: the same id and the  *)
(* same value under every input.                                           *)
(***************************************************************************)
C29_Case ==
    /\ last_call.op = "set_schema"
    /\ last_call.answer # "no"

C29_FailedImportChangesNothing ==
    C29_Case =>
        /\ protocols[last_call.self].id = last_call.was[last_call.self].id
        /\ \A n \in InputNames(last_call.was[last_call.self].type) :
               protocols[last_call.self].values[n] = last_call.was[last_call.self].values[n]

(***************************************************************************)
(* C24 (SpecUuid). After a set_uuid(u) call the id of the node, every node *)
(* id in its declared input and output addresses and every node id in an   *)
(* input value which is an address carry u exactly once; a further call    *)
(* with a job identifier already applied changes nothing.                  *)
(***************************************************************************)
\* The id carries the tag exactly once.
C24_Tagged(id, uuid) == Cardinality(Occurrences(id, uuid)) = 1

\* Every node id of the address carries the tag exactly once.
C24_PathTagged(path, uuid) ==
    \A i \in DOMAIN path.protocol_ids : C24_Tagged(path.protocol_ids[i], uuid)

\* The job identifier of the last call was applied by an earlier call.
C24_Repeated ==
    \E i \in 1..(Len(last_call.applied) - 1) : last_call.applied[i] = last_call.value

C24_TaggedOnce ==
    last_call.op = "set_uuid" =>
        LET self == protocols[last_call.self]
            uuid == last_call.value
        IN  /\ last_call.answer = "no"
            /\ C24_Tagged(self.id, uuid)
            /\ \A i \in DOMAIN self.required_inputs :
                   C24_PathTagged(self.required_inputs[i], uuid)
            /\ \A i \in DOMAIN self.provided_outputs :
                   C24_PathTagged(self.provided_outputs[i], uuid)
            /\ \A n \in InputNames(self.type) :
                   self.values[n].type = "ProtocolPath" => C24_PathTagged(self.values[n], uuid)
            /\ C24_Repeated => protocols = last_call.was

(***************************************************************************)
(* C25 (SpecUuid). The declared input and output addresses of a node are   *)
(* the ones it had before a call on it: no call adds, removes or changes   *)
(* an entry of required_inputs or provided_outputs.                        *)
(***************************************************************************)
C25_Case == last_call.op \in {"set_value", "set_uuid", "replace_protocol", "merge", "set_schema"}

C30_Amounts(self) ==
    [i \in DOMAIN self.components |-> self.amounts[self.components[i]]]

\* The sum of the mole fractions a substance holds, in parts of 1 / Whole.
C30_Total(self) ==
    SumOf(SelectSeq(C30_Amounts(self), LAMBDA x : x.type = "MoleFraction"))

C30_AtMostOne ==
    substance # NoVal =>
        /\ C30_Total(substance) <= Whole
        /\ (/\ last_call.op = "add_component"
            /\ last_call.amount.type = "MoleFraction"
            /\ C30_Total(last_call.was) + last_call.amount.value > Whole)
           => (last_call.answer = "ValueError" /\ substance = last_call.was)

====
